---- MODULE Spec2Model ----
(***************************************************************************)
(* Model of backend/utils/files_utils.py: the workspace path guard         *)
(* (clean_path, enforce_workspace_path) and the file visibility filter     *)
(* (should_exclude_file).                                                  *)
(*                                                                         *)
(* A Python str is modelled as a sequence of one-character strings, so     *)
(* that prefixes, slices and separators are computed the way the code      *)
(* computes them.                                                          *)
(***************************************************************************)
EXTENDS Naturals, Sequences, FiniteSets

VARIABLES
    path,             \* enforce_workspace_path: the `path` argument
    workspace_path,   \* enforce_workspace_path: the `workspace_path` argument
    pc,               \* position inside enforce_workspace_path
    cleaned_path,     \* local of enforce_workspace_path (line 122)
    full_path,        \* local of enforce_workspace_path (line 125)
    normalized_path,  \* local of enforce_workspace_path (line 128)
    result,           \* the returned value, once pc = "returned"
    error,            \* the exception that left the function, once pc = "raised"
    call,             \* which call of the guard this is: "first", "again", "slash"
    first,            \* the outcome of the first call, kept by the caller
    rel_path,         \* should_exclude_file: the `rel_path` argument
    xpc,              \* position inside should_exclude_file
    excluded          \* should_exclude_file: the returned bool, once xpc = "returned"

vars == <<path, workspace_path, pc, cleaned_path, full_path, normalized_path,
          result, error, call, first, rel_path, xpc, excluded>>

guardVars == <<path, workspace_path, pc, cleaned_path, full_path,
               normalized_path, result, error, call, first>>

filterVars == <<rel_path, xpc, excluded>>

-----------------------------------------------------------------------------
(* Bounds of the model *)

\* Longest input path, counted in tokens of PathTokens.
MaxTokens == 5

\* Deepest input of the visibility filter, counted in directories of DirNames.
MaxDirs == 2

-----------------------------------------------------------------------------
(* Python str operations *)

Empty == << >>

Max(S) == CHOOSE x \in S : \A y \in S : y <= x

\* s.startswith(prefix)
startswith(s, prefix) ==
    /\ Len(prefix) <= Len(s)
    /\ SubSeq(s, 1, Len(prefix)) = prefix

\* s[n:]
SliceFrom(s, n) == SubSeq(s, n + 1, Len(s))

\* s[:n]
SliceTo(s, n) == SubSeq(s, 1, n)

\* s.lstrip('/')
RECURSIVE lstrip(_)
lstrip(s) ==
    IF s # Empty /\ Head(s) = "/" THEN lstrip(Tail(s)) ELSE s

\* s.rstrip('/')
RECURSIVE rstrip(_)
rstrip(s) ==
    IF s # Empty /\ s[Len(s)] = "/" THEN rstrip(SubSeq(s, 1, Len(s) - 1)) ELSE s

\* s.rfind(c) + 1: the 1-based position of the last c in s, 0 when there is none
RFind(s, c) ==
    LET I == {i \in 1..Len(s) : s[i] = c}
    IN  IF I = {} THEN 0 ELSE Max(I)

\* sub in s
Contains(s, sub) ==
    \E i \in 0..(Len(s) - Len(sub)) : SubSeq(s, i + 1, i + Len(sub)) = sub

\* s.split('/'): a sequence of components, never empty
RECURSIVE split(_)
split(s) ==
    LET I == {i \in 1..Len(s) : s[i] = "/"}
    IN  IF I = {} THEN <<s>>
        ELSE LET i == CHOOSE j \in I : \A k \in I : j <= k
             IN  <<SubSeq(s, 1, i - 1)>> \o split(SubSeq(s, i + 1, Len(s)))

\* '/'.join(comps)
RECURSIVE JoinSlash(_)
JoinSlash(comps) ==
    IF comps = << >> THEN Empty
    ELSE IF Len(comps) = 1 THEN comps[1]
    ELSE comps[1] \o <<"/">> \o JoinSlash(Tail(comps))

\* the concatenation of a sequence of strings
RECURSIVE Concat(_)
Concat(ss) ==
    IF ss = << >> THEN Empty ELSE Head(ss) \o Concat(Tail(ss))

-----------------------------------------------------------------------------
(* posixpath *)

Dot == <<".">>
DotDot == <<".", ".">>
Slash == <<"/">>

\* os.path.isabs(s)
isabs(s) == startswith(s, Slash)

\* join written as plain concatenation
join_concat(a, b) == a \o b

\* os.path.join(a, b)
join(a, b) ==
    IF startswith(b, Slash) THEN b
    ELSE IF a = Empty \/ a[Len(a)] = "/" THEN a \o b
    ELSE a \o Slash \o b

\* the component loop of os.path.normpath: comps still to read, new_comps so far
RECURSIVE NormComps(_, _, _)
NormComps(comps, new_comps, initial_slashes) ==
    IF comps = << >> THEN new_comps
    ELSE LET comp == Head(comps)
             n == Len(new_comps)
         IN  IF comp = Empty \/ comp = Dot
                 THEN NormComps(Tail(comps), new_comps, initial_slashes)
             ELSE IF \/ comp # DotDot
                     \/ (initial_slashes = 0 /\ n = 0)
                     \/ (n > 0 /\ new_comps[n] = DotDot)
                 THEN NormComps(Tail(comps), Append(new_comps, comp), initial_slashes)
             ELSE IF n > 0
                 THEN NormComps(Tail(comps), SubSeq(new_comps, 1, n - 1), initial_slashes)
             ELSE NormComps(Tail(comps), new_comps, initial_slashes)

\* os.path.normpath(s)
normpath(s) ==
    IF s = Empty THEN Dot
    ELSE LET initial_slashes ==
                 IF ~startswith(s, Slash) THEN 0
                 ELSE IF startswith(s, <<"/", "/">>) /\ ~startswith(s, <<"/", "/", "/">>)
                     THEN 2
                 ELSE 1
             joined == JoinSlash(NormComps(split(s), << >>, initial_slashes))
             out == IF initial_slashes = 2 THEN <<"/", "/">> \o joined
                    ELSE IF initial_slashes = 1 THEN Slash \o joined
                    ELSE joined
         IN  IF out = Empty THEN Dot ELSE out

\* [x for x in s.split('/') if x]
NonEmptyComps(s) == SelectSeq(split(s), LAMBDA c : c # Empty)

\* len(os.path.commonprefix([l1, l2])) for two lists of components
RECURSIVE CommonLen(_, _)
CommonLen(l1, l2) ==
    IF l1 = << >> \/ l2 = << >> \/ Head(l1) # Head(l2) THEN 0
    ELSE 1 + CommonLen(Tail(l1), Tail(l2))

\* os.path.relpath(p, start), for absolute p and start
relpath(p, start) ==
    LET start_list == NonEmptyComps(normpath(start))
        path_list == NonEmptyComps(normpath(p))
        i == CommonLen(start_list, path_list)
        ups == [k \in 1..(Len(start_list) - i) |-> DotDot]
        rel_list == ups \o SubSeq(path_list, i + 1, Len(path_list))
    IN  IF rel_list = << >> THEN Dot ELSE JoinSlash(rel_list)

\* os.path.basename(s)
basename(s) == SliceFrom(s, RFind(s, "/"))

\* os.path.dirname(s)
dirname(s) ==
    LET head == SliceTo(s, RFind(s, "/"))
    IN  IF head # Empty /\ (\E i \in 1..Len(head) : head[i] # "/")
            THEN rstrip(head)
        ELSE head

\* os.path.splitext(s)[1]
splitext_ext(s) ==
    LET sepIndex == RFind(s, "/")        \* rfind + 1
        dotIndex == RFind(s, ".")        \* rfind + 1
    IN  IF /\ dotIndex > sepIndex
           /\ \E k \in (sepIndex + 1)..(dotIndex - 1) : s[k] # "."
            THEN SliceFrom(s, dotIndex - 1)
        ELSE Empty

-----------------------------------------------------------------------------
(* backend/utils/files_utils.py: clean_path *)

WORKSPACE == <<"w","o","r","k","s","p","a","c","e">>

\* the literal 'workspace/' of line 85
LegacyPrefix == WORKSPACE \o Slash

\* the slice index of line 86: path[9:]
LegacySliceIndex == 9

\* clean_path without the final lstrip of line 89
clean_path_no_final_lstrip(p, root) ==
    LET p1 == lstrip(p)
        prefix == lstrip(root)
        p2 == IF startswith(p1, prefix) THEN SliceFrom(p1, Len(prefix)) ELSE p1
    IN  IF startswith(p2, LegacyPrefix) THEN SliceFrom(p2, LegacySliceIndex) ELSE p2

\* clean_path(path, workspace_path), lines 78-91
clean_path(p, root) ==
    LET p1 == lstrip(p)
        prefix == lstrip(root)
        p2 == IF startswith(p1, prefix) THEN SliceFrom(p1, Len(prefix)) ELSE p1
        p3 == IF startswith(p2, LegacyPrefix) THEN SliceFrom(p2, LegacySliceIndex) ELSE p2
    IN  lstrip(p3)

-----------------------------------------------------------------------------
(* Inputs *)

A == <<"a">>
FOO == <<"f","o","o">>
BAR_TXT == <<"b","a","r",".","t","x","t">>
ETC == <<"e","t","c">>
PASSWD == <<"p","a","s","s","w","d">>

\* The default root of lines 67 and 93, a second root, and the default root
\* written with a trailing separator.
DefaultRoot == Slash \o WORKSPACE
Roots == {DefaultRoot, Slash \o A, DefaultRoot \o Slash}

PathTokens == {Slash, Dot, DotDot, WORKSPACE, A}

TokenPaths ==
    {Concat(ts) : ts \in UNION {[1..k -> PathTokens] : k \in 0..MaxTokens}}

\* The paths the documentation of the guard names.
ExamplePaths ==
    { Concat(<<Slash, WORKSPACE, Slash, FOO, Slash, BAR_TXT>>),
      Concat(<<WORKSPACE, Slash, FOO, Slash, BAR_TXT>>),
      Concat(<<FOO, Slash, DotDot, Slash, DotDot, Slash, BAR_TXT>>),
      Concat(<<DotDot, Slash, DotDot, Slash, ETC, Slash, PASSWD>>),
      Concat(<<Slash, ETC, Slash, PASSWD>>) }

Paths == TokenPaths \cup ExamplePaths

\* utils.logger, as seen from the guard: the warning is logged, the logger
\* cannot be imported, or the attempt to log fails.
LoggerBehaviours == {"logged", "missing", "write fails"}

AbsoluteError == "absolute path outside workspace"
ResolvedError == "resolved path outside workspace"
AuditError == "audit failure"

NoCall == [path |-> Empty, pc |-> "none", result |-> Empty, error |-> "none"]

-----------------------------------------------------------------------------
(* backend/utils/files_utils.py: enforce_workspace_path *)

InitGuard ==
    /\ path \in Paths
    /\ workspace_path \in Roots
    /\ pc = "start"
    /\ cleaned_path = Empty
    /\ full_path = Empty
    /\ normalized_path = Empty
    /\ result = Empty
    /\ error = "none"
    /\ call = "first"
    /\ first = NoCall

IdleFilter ==
    /\ rel_path = Empty
    /\ xpc = "idle"
    /\ excluded = FALSE

Init == InitGuard /\ IdleFilter

\* line 112: the check for absolute paths that do not start with workspace_path
AbsoluteCheck ==
    /\ pc = "start"
    /\ pc' = IF isabs(path) /\ ~startswith(path, workspace_path)
                 THEN "audit_absolute"
             ELSE "clean"
    /\ UNCHANGED <<path, workspace_path, cleaned_path, full_path,
                   normalized_path, result, error, call, first,
                   filterVars>>

\* lines 113-119 and 132-138: the logging attempt, then the raise. The try
\* block swallows ImportError alone: any other exception raised inside it
\* leaves the function in place of the ValueError.
AuditAndRaise ==
    /\ pc \in {"audit_absolute", "audit_resolved"}
    /\ \E logger \in LoggerBehaviours :
          error' = IF logger = "write fails" THEN AuditError
                   ELSE IF pc = "audit_absolute" THEN AbsoluteError
                   ELSE ResolvedError
    /\ pc' = "raised"
    /\ UNCHANGED <<path, workspace_path, cleaned_path, full_path,
                   normalized_path, result, call, first,
                   filterVars>>

\* lines 121-128: clean, join, normalize
Resolve ==
    /\ pc = "clean"
    /\ cleaned_path' = clean_path(path, workspace_path)
    /\ full_path' = join(workspace_path, cleaned_path')
    /\ normalized_path' = normpath(full_path')
    /\ pc' = "check"
    /\ UNCHANGED <<path, workspace_path, result, error, call, first,
                   filterVars>>

\* line 131: the check that the normalized path is still within the workspace
WithinCheck ==
    /\ pc = "check"
    /\ pc' = IF ~startswith(normalized_path, workspace_path)
                 THEN "audit_resolved"
             ELSE "relative"
    /\ UNCHANGED <<path, workspace_path, cleaned_path, full_path,
                   normalized_path, result, error, call, first,
                   filterVars>>

\* lines 140-147: the relative path, '' for the root itself
Relativize ==
    /\ pc = "relative"
    /\ LET relative_path == relpath(normalized_path, workspace_path)
       IN  result' = IF relative_path = Dot THEN Empty ELSE relative_path
    /\ pc' = "returned"
    /\ UNCHANGED <<path, workspace_path, cleaned_path, full_path,
                   normalized_path, error, call, first,
                   filterVars>>

\* The caller keeps the outcome of the call that ended and calls the guard
\* again with new_path.
Recall(new_path, kind) ==
    /\ call = "first"
    /\ first' = [path |-> path, pc |-> pc, result |-> result, error |-> error]
    /\ call' = kind
    /\ path' = new_path
    /\ pc' = "start"
    /\ cleaned_path' = Empty
    /\ full_path' = Empty
    /\ normalized_path' = Empty
    /\ result' = Empty
    /\ error' = "none"
    /\ UNCHANGED <<workspace_path, filterVars>>

\* enforce_workspace_path(enforce_workspace_path(p, root), root)
CallAgain ==
    /\ pc = "returned"
    /\ Recall(result, "again")

\* enforce_workspace_path(p + '/', root) after enforce_workspace_path(p, root)
CallWithSlash ==
    /\ pc \in {"returned", "raised"}
    /\ Recall(path \o Slash, "slash")

Next ==
    \/ AbsoluteCheck
    \/ AuditAndRaise
    \/ Resolve
    \/ WithinCheck
    \/ Relativize
    \/ CallAgain
    \/ CallWithSlash

Spec == Init /\ [][Next]_vars

-----------------------------------------------------------------------------
(* backend/utils/files_utils.py: the exclusion sets, lines 5-39 *)

EXCLUDED_FILES ==
    { <<".","D","S","_","S","t","o","r","e">>,
      <<".","g","i","t","i","g","n","o","r","e">>,
      <<"p","a","c","k","a","g","e","-","l","o","c","k",".","j","s","o","n">>,
      <<"p","o","s","t","c","s","s",".","c","o","n","f","i","g",".","j","s">>,
      <<"p","o","s","t","c","s","s",".","c","o","n","f","i","g",".","m","j","s">>,
      <<"j","s","c","o","n","f","i","g",".","j","s","o","n">>,
      <<"c","o","m","p","o","n","e","n","t","s",".","j","s","o","n">>,
      <<"t","s","c","o","n","f","i","g",".","t","s","b","u","i","l","d","i","n","f","o">>,
      <<"t","s","c","o","n","f","i","g",".","j","s","o","n">> }

EXCLUDED_DIRS ==
    { <<"n","o","d","e","_","m","o","d","u","l","e","s">>,
      <<".","n","e","x","t">>,
      <<"d","i","s","t">>,
      <<"b","u","i","l","d">>,
      <<".","g","i","t">> }

EXCLUDED_EXT ==
    { <<".","i","c","o">>,
      <<".","s","v","g">>,
      <<".","p","n","g">>,
      <<".","j","p","g">>,
      <<".","j","p","e","g">>,
      <<".","g","i","f">>,
      <<".","b","m","p">>,
      <<".","t","i","f","f">>,
      <<".","w","e","b","p">>,
      <<".","d","b">>,
      <<".","s","q","l">> }

UPPERCASE == <<"A","B","C","D","E","F","G","H","I","J","K","L","M","N","O","P","Q","R","S","T","U","V","W","X","Y","Z">>
LOWERCASE == <<"a","b","c","d","e","f","g","h","i","j","k","l","m","n","o","p","q","r","s","t","u","v","w","x","y","z">>

\* s.lower(), on ASCII
lower(s) ==
    [i \in 1..Len(s) |->
        IF \E k \in 1..Len(UPPERCASE) : UPPERCASE[k] = s[i]
            THEN LOWERCASE[CHOOSE k \in 1..Len(UPPERCASE) : UPPERCASE[k] = s[i]]
        ELSE s[i]]

-----------------------------------------------------------------------------
(* backend/utils/files_utils.py: should_exclude_file *)

\* lines 51-52: filename in EXCLUDED_FILES
FilenameExcluded(p) == basename(p) \in EXCLUDED_FILES

\* the directory rule matching whole path segments instead of substrings
DirectoryExcluded_segments(p) ==
    \E i \in 1..Len(split(dirname(p))) : split(dirname(p))[i] \in EXCLUDED_DIRS

\* lines 56-57: any(excluded in dir_path for excluded in EXCLUDED_DIRS)
DirectoryExcluded(p) ==
    \E excluded_dir \in EXCLUDED_DIRS : Contains(dirname(p), excluded_dir)

\* lines 61-62: ext.lower() in EXCLUDED_EXT
ExtensionExcluded(p) == lower(splitext_ext(basename(p))) \in EXCLUDED_EXT

DirNames ==
    { <<"s","r","c">>,
      <<"n","o","d","e","_","m","o","d","u","l","e","s">>,
      <<"n","o","t","_","n","o","d","e","_","m","o","d","u","l","e","s","_","r","e","a","l","l","y">>,
      <<"a","s","s","e","t","s">>,
      <<".","g","i","t">>,
      <<"D","i","s","t">> }

Stems ==
    { <<>>,
      <<"x">>,
      <<"l","o","g","o">>,
      <<"R","E","A","D","M","E">>,
      <<"p","a","c","k","a","g","e","-","l","o","c","k">>,
      <<"P","a","c","k","a","g","e","-","l","o","c","k">>,
      <<"b","u","i","l","d">>,
      <<".">>,
      <<"a",".","p","n","g">> }

Suffixes ==
    { <<>>,
      <<".","p","y">>,
      <<".","p","n","g">>,
      <<".","P","N","G">>,
      <<".","m","d">>,
      <<".","j","s","o","n">>,
      <<".","g","i","t","i","g","n","o","r","e">> }

RECURSIVE DirPrefix(_)
DirPrefix(ds) ==
    IF ds = << >> THEN Empty ELSE Head(ds) \o Slash \o DirPrefix(Tail(ds))

\* The paths the documentation of the filter names.
ExampleFiles ==
    { <<"s","r","c","/","n","o","d","e","_","m","o","d","u","l","e","s","/","x",".","j","s">>,
      <<"R","E","A","D","M","E",".","m","d">>,
      <<"p","a","c","k","a","g","e","-","l","o","c","k",".","j","s","o","n">>,
      <<"a","s","s","e","t","s","/","l","o","g","o",".","p","n","g">>,
      <<"a","/","b","/","n","o","t","_","n","o","d","e","_","m","o","d","u","l","e","s","_","r","e","a","l","l","y","/","x",".","p","y">> }

FilePaths ==
    {DirPrefix(ds) \o stem \o suffix :
        ds \in UNION {[1..k -> DirNames] : k \in 0..MaxDirs},
        stem \in Stems, suffix \in Suffixes}
    \cup ExampleFiles

IdleGuard ==
    /\ path = Empty
    /\ workspace_path = DefaultRoot
    /\ pc = "idle"
    /\ cleaned_path = Empty
    /\ full_path = Empty
    /\ normalized_path = Empty
    /\ result = Empty
    /\ error = "none"
    /\ call = "none"
    /\ first = NoCall

InitFilter ==
    /\ rel_path \in FilePaths
    /\ xpc = "filename"
    /\ excluded = FALSE
    /\ IdleGuard

\* lines 50-53
CheckFilename ==
    /\ xpc = "filename"
    /\ IF FilenameExcluded(rel_path)
           THEN excluded' = TRUE /\ xpc' = "returned"
       ELSE excluded' = FALSE /\ xpc' = "directory"
    /\ UNCHANGED <<rel_path, guardVars>>

\* lines 55-58
CheckDirectory ==
    /\ xpc = "directory"
    /\ IF DirectoryExcluded(rel_path)
           THEN excluded' = TRUE /\ xpc' = "returned"
       ELSE excluded' = FALSE /\ xpc' = "extension"
    /\ UNCHANGED <<rel_path, guardVars>>

\* lines 60-65
CheckExtension ==
    /\ xpc = "extension"
    /\ excluded' = ExtensionExcluded(rel_path)
    /\ xpc' = "returned"
    /\ UNCHANGED <<rel_path, guardVars>>

NextFilter ==
    \/ CheckFilename
    \/ CheckDirectory
    \/ CheckExtension

SpecFilter == InitFilter /\ [][NextFilter]_vars

-----------------------------------------------------------------------------
(* Properties of the workspace guard *)

Rejected == pc \in {"audit_absolute", "audit_resolved", "raised"}

\* The components of an absolute location.
Location(p) == NonEmptyComps(normpath(p))

\* location n lies within root, the root itself included
Inside(n, root) ==
    /\ Len(Location(root)) <= Len(Location(n))
    /\ SubSeq(Location(n), 1, Len(Location(root))) = Location(root)

\* The segments of p none of which is "..".
NoDotDotSegment(p) == \A i \in 1..Len(split(p)) : split(p)[i] # DotDot

\* p is a non-empty sequence of ordinary segments: no empty segment (no
\* doubled or trailing slash), no "." and no "..".
OrdinarySegments(p) ==
    /\ p # Empty
    /\ \A i \in 1..Len(split(p)) : split(p)[i] \notin {Empty, Dot, DotDot}

\* root is written in normal form, with at most one trailing slash
NormalRoot(root) ==
    /\ isabs(root)
    /\ \/ normpath(root) = root
       \/ normpath(root) \o Slash = root

\* C1: a value is returned only when the resolved location of root joined
\* with the cleaned path lies within root, so the returned relative path,
\* joined back to root and resolved, lies within root.
C1_ReturnedPathInsideRoot ==
    pc = "returned" =>
        /\ Inside(normpath(join(workspace_path, clean_path(path, workspace_path))),
                  workspace_path)
        /\ Inside(normpath(join(workspace_path, result)), workspace_path)

\* C2: an absolute path that does not start with the root string is rejected
\* at the first check with the "absolute path outside workspace" error,
\* before cleaning, joining or resolution, and never returns a value.
C2_AbsoluteOutsideFailsAtFirstCheck ==
    (call = "first" /\ isabs(path) /\ ~startswith(path, workspace_path)) =>
        /\ pc \in {"start", "audit_absolute", "raised"}
        /\ cleaned_path = Empty /\ full_path = Empty /\ normalized_path = Empty
        /\ (pc = "raised" => error = AbsoluteError)

\* C3: the empty input and the root itself are never rejected and both
\* return the empty string, for every root.
C3_EmptyAndRootDenoteRoot ==
    (call = "first" /\ path \in {Empty, workspace_path}) =>
        /\ ~Rejected
        /\ (pc = "returned" => result = Empty)

\* C4: idempotence: the guard applied to a value r it returned does not fail
\* and returns exactly r.
C4_Idempotent ==
    call = "again" =>
        /\ ~Rejected
        /\ (pc = "returned" => result = first.result)

C6_TrailingSlashSameOutcome ==
    (call = "slash" /\ pc \in {"returned", "raised"}) =>
        /\ pc = first.pc
        /\ result = first.result

\* the root's own name as a relative prefix, and the literal "workspace/"
RedundantPrefixes(root) == {rstrip(lstrip(root)) \o Slash, LegacyPrefix}

NestedPaths == {A, Concat(<<A, Slash, A>>)}

\* C7: an input that carries two redundant workspace prefixes in front of a
\* nested path q is accepted and q is returned, with no prefix left.
C7_MixedPrefixesStripped ==
    \A pre1 \in RedundantPrefixes(workspace_path) :
    \A pre2 \in RedundantPrefixes(workspace_path) :
    \A q \in NestedPaths :
        (call = "first" /\ path = pre1 \o pre2 \o q) =>
            /\ ~Rejected
            /\ (pc = "returned" => result = q)

\* C8: every rejection ends with the path-escape error, whatever happens to
\* the logging attempt.
C8_RejectionIsPathEscapeError ==
    pc = "raised" => error \in {AbsoluteError, ResolvedError}

-----------------------------------------------------------------------------
(* Properties of the visibility filter *)

\* p = dir_part \o segment, where segment is the final path segment
FinalSegment(p, dir_part, segment) ==
    /\ p = dir_part \o segment
    /\ \A i \in 1..Len(segment) : segment[i] # "/"
    /\ (dir_part = Empty \/ dir_part[Len(dir_part)] = "/")

\* ext is the extension of segment: what starts at its last ".", when a
\* character other than "." precedes it
ExtensionOf(segment, ext) ==
    /\ ext # Empty
    /\ Len(ext) < Len(segment)
    /\ SubSeq(segment, Len(segment) - Len(ext) + 1, Len(segment)) = ext
    /\ ext[1] = "."
    /\ \A i \in 2..Len(ext) : ext[i] # "."
    /\ \E i \in 1..(Len(segment) - Len(ext)) : segment[i] # "."

\* the three rules, each on its own
RuleFilename(p) ==
    \E k \in 0..Len(p) :
        /\ FinalSegment(p, SliceTo(p, k), SliceFrom(p, k))
        /\ SliceFrom(p, k) \in EXCLUDED_FILES

RuleDirectory(p) ==
    \E k \in 0..Len(p) :
        /\ FinalSegment(p, SliceTo(p, k), SliceFrom(p, k))
        /\ \E token \in EXCLUDED_DIRS : Contains(SliceTo(p, k), token)

RuleExtension(p) ==
    \E k \in 0..Len(p) :
        /\ FinalSegment(p, SliceTo(p, k), SliceFrom(p, k))
        /\ \E j \in k..Len(p) :
              /\ ExtensionOf(SliceFrom(p, k), SliceFrom(p, j))
              /\ lower(SliceFrom(p, j)) \in EXCLUDED_EXT

\* C9: should_exclude_file is true exactly when the filename rule, the
\* directory rule (a substring match at any depth) or the extension rule
\* matches, in whatever order they are taken; README.md is kept and the four
\* documented paths are excluded.
C9_ExcludedIffSomeRuleMatches ==
    xpc = "returned" =>
        /\ excluded = (RuleExtension(rel_path) \/ RuleDirectory(rel_path)
                          \/ RuleFilename(rel_path))
        /\ (rel_path = <<"R","E","A","D","M","E",".","m","d">> => ~excluded)
        /\ (rel_path \in ExampleFiles \ {<<"R","E","A","D","M","E",".","m","d">>} => excluded)

\* C9: the directory rule alone has excluded the documented over-match.
C9_Witness ==
    /\ xpc = "returned"
    /\ rel_path = <<"a","/","b","/","n","o","t","_","n","o","d","e","_","m","o","d","u","l","e","s","_","r","e","a","l","l","y","/","x",".","p","y">>
    /\ excluded
    /\ ~RuleFilename(rel_path)
    /\ ~RuleExtension(rel_path)

-----------------------------------------------------------------------------
(* Properties of clean_path *)

\* The five documented steps: strip leading "/"; remove the root without its
\* leading slash when it is a prefix; strip the literal "workspace/" prefix,
\* all 10 characters of it; strip leading "/"; return.
FiveSteps(p, root) ==
    LET s1 == lstrip(p)
        bare_root == IF startswith(root, Slash) THEN Tail(root) ELSE root
        s2 == IF startswith(s1, bare_root) THEN SliceFrom(s1, Len(bare_root)) ELSE s1
        s3 == IF startswith(s2, LegacyPrefix) THEN SliceFrom(s2, Len(LegacyPrefix)) ELSE s2
    IN  lstrip(s3)

\* C10: clean_path returns what the five documented steps return, never a
\* string that begins with "/", and "foo/bar.txt" for both documented inputs.
C10_CleanPathIsFiveSteps ==
    /\ Len(LegacyPrefix) = 10
    /\ clean_path(path, workspace_path) = FiveSteps(path, workspace_path)
    /\ ~startswith(clean_path(path, workspace_path), Slash)
    /\ (pc = "check" =>
            /\ cleaned_path = FiveSteps(path, workspace_path)
            /\ ~startswith(cleaned_path, Slash))
    /\ ((workspace_path = DefaultRoot /\ path \in
            {<<"/","w","o","r","k","s","p","a","c","e","/","f","o","o","/","b","a","r",".","t","x","t">>,
                    <<"w","o","r","k","s","p","a","c","e","/","f","o","o","/","b","a","r",".","t","x","t">>})
           => clean_path(path, workspace_path) = <<"f","o","o","/","b","a","r",".","t","x","t">>)

\* C10: the guard has cleaned the documented absolute input.
C10_Witness ==
    /\ pc = "check"
    /\ workspace_path = DefaultRoot
    /\ path = <<"/","w","o","r","k","s","p","a","c","e","/","f","o","o","/","b","a","r",".","t","x","t">>
    /\ cleaned_path = <<"f","o","o","/","b","a","r",".","t","x","t">>

-----------------------------------------------------------------------------
(* Location preserved by the guard *)

\* C11: an accepted absolute input that starts with the root string keeps
\* its location: root joined with the returned relative path, resolved, is
\* the lexical normalization of the input itself.
C11_AcceptedAbsoluteKeepsLocation ==
    ( /\ call = "first"
      /\ pc = "returned"
      /\ isabs(path)
      /\ startswith(path, workspace_path) ) =>
        normpath(join(workspace_path, result)) = normpath(path)

====
